---- MODULE Spec2Model ----
(***************************************************************************)
(* A model of osp_index_info: the Image resolver, Bundle, Catalog, the     *)
(* change matcher get_changes, RepoChange and the compare command.         *)
(*                                                                         *)
(* Python strings are sequences of tokens.  A token is one of the          *)
(* separator characters "/", ":", "@", a whitespace character, or a chunk  *)
(* of text holding none of them, so str.split and str.strip act on the     *)
(* sequences exactly as they act on the strings.  Where the code counts    *)
(* characters (sha[:8], startswith) every token is a single character.     *)
(* Python's None is the value None below, distinct from every string.      *)
(***************************************************************************)
EXTENDS Integers, Sequences, FiniteSets, TLC

\* ------------------------------------------------------------------ bounds

\* Path segments of an image repository (SpecName).
MaxSegs == 2

\* Records of a catalog (SpecBundle).
MaxEntries == 3

\* Image objects of a catalog's bundles (SpecImage).
NumImages == 2

\* Calls of Catalog.clean in one run (SpecImage).
MaxCleans == 2

\* relatedImages entries of one bundle (Spec).
MaxImages == 2

\* ----------------------------------------------------------------- constants

\* The characters of a revision a warning shows: sha[:8].
ShortLen == 8

\* ----------------------------------------------------------- Python values

None == <<"None">>

EmptyStr == <<>>

\* Python truthiness of an Optional[str].
Truthy(x) == x # None /\ x # EmptyStr

Last(s) == s[Len(s)]

\* str.split(sep): cut at every separator, empty pieces kept.
RECURSIVE Split(_, _)
Split(s, sep) ==
    IF \A i \in 1..Len(s) : s[i] # sep
    THEN <<s>>
    ELSE LET i == CHOOSE k \in 1..Len(s) :
                     s[k] = sep /\ \A j \in 1..(k - 1) : s[j] # sep
         IN  <<SubSeq(s, 1, i - 1)>> \o Split(SubSeq(s, i + 1, Len(s)), sep)

\* str.startswith(prefix).
StartsWith(s, prefix) ==
    Len(prefix) <= Len(s) /\ SubSeq(s, 1, Len(prefix)) = prefix

\* ---------------------------------------------------------- component table

\* IMAGE_REPO_TO_GIT_REPO, cut to the rows that differ in kind: two components
\* of one upstream repository, a component of another repository, and the
\* intentionally untracked component (empty slug).  Any other name is absent.
IMAGE_REPO_TO_GIT_REPO ==
    (<<"pipelines-controller-rhel9">> :> <<"tektoncd/pipeline">>)
 @@ (<<"pipelines-entrypoint-rhel9">> :> <<"tektoncd/pipeline">>)
 @@ (<<"pipelines-cli-tkn-rhel9">> :> <<"tektoncd/cli">>)
 @@ (<<"pipelines-opc-rhel9">> :> EmptyStr)

\* dict.get(key): None for an absent key.
TableGet(key) ==
    IF key \in DOMAIN IMAGE_REPO_TO_GIT_REPO
    THEN IMAGE_REPO_TO_GIT_REPO[key]
    ELSE None

\* ------------------------------------------------------------------- Image

\* Image.__init__ of osp_index_info/main.py.  exc is "" (no exception).
Image(image_ref) ==
    LET image_repo_full == Split(image_ref, "@")[1]
        image_repo == Last(Split(image_repo_full, "/"))
        colon_parts == Split(image_ref, ":")
    IN  [ exc          |-> "",
          image_ref    |-> image_ref,
          image_repo   |-> image_repo,
          image_digest |-> IF Len(colon_parts) > 1 THEN colon_parts[2] ELSE None,
          code_repo    |-> TableGet(image_repo) ]

\* Image.__init__ of scripts/osp_index_info.py: image_ref.split(":")[1] with
\* no length check raises IndexError on a reference that has no colon.
ScriptImage(image_ref) ==
    LET image_repo_full == Split(image_ref, "@")[1]
        image_repo == Last(Split(image_repo_full, "/"))
        colon_parts == Split(image_ref, ":")
    IN  IF Len(colon_parts) < 2
        THEN [ exc          |-> "IndexError",
               image_ref    |-> image_ref,
               image_repo   |-> image_repo,
               image_digest |-> None,
               code_repo    |-> None ]
        ELSE [ exc          |-> "",
               image_ref    |-> image_ref,
               image_repo   |-> image_repo,
               image_digest |-> colon_parts[2],
               code_repo    |-> TableGet(image_repo) ]

\* ------------------------------------------------------- Bundle and Catalog

\* Bundle.__init__: the record and its name.
Bundle(bundle_data) == [ data |-> bundle_data, name |-> bundle_data.name ]

RECURSIVE BundlesOf(_)
BundlesOf(es) ==
    IF es = <<>> THEN <<>>
    ELSE (IF Head(es).schema = "olm.bundle" THEN <<Bundle(Head(es))>> ELSE <<>>)
         \o BundlesOf(Tail(es))

\* Catalog.bundles: the value of self._bundles after the call, which is also
\* what the call returns.  An empty cache is filled again on every call.
bundles(cache, es) == IF cache = <<>> THEN BundlesOf(es) ELSE cache

RECURSIVE Matching(_, _)
Matching(bs, name) ==
    IF bs = <<>> THEN <<>>
    ELSE (IF StartsWith(Head(bs).name, name) THEN <<Head(bs)>> ELSE <<>>)
         \o Matching(Tail(bs), name)

\* A mutant of get_bundle: the ambiguity check is missing.
get_bundle_first_match(bs, name) ==
    LET matching_bundles == Matching(bs, name)
    IN  IF Len(matching_bundles) = 0
        THEN [ exc |-> "Exception", ret |-> <<>> ]
        ELSE [ exc |-> "", ret |-> <<matching_bundles[1]>> ]

\* Catalog.get_bundle over the bundles self.bundles() returned: the exception
\* raised ("" for none) and the Bundle returned (none when it raised).
get_bundle(bs, name) ==
    LET matching_bundles == Matching(bs, name)
    IN  IF Len(matching_bundles) = 0
        THEN [ exc |-> "Exception", ret |-> <<>> ]
        ELSE IF Len(matching_bundles) > 1
        THEN [ exc |-> "Exception", ret |-> <<>> ]
        ELSE [ exc |-> "", ret |-> <<matching_bundles[1]>> ]

\* -------------------------------------------------------------- RepoChange

\* RepoChange.__init__.
RepoChange(image_name, git_repo, old_revision, new_revision) ==
    [ image_name   |-> image_name,
      git_repo     |-> git_repo,
      old_revision |-> old_revision,
      new_revision |-> new_revision ]

\* sha[:8].
Short(sha) == SubSeq(sha, 1, IF Len(sha) < ShortLen THEN Len(sha) ELSE ShortLen)

\* The order of the characters a date is written in.
CharOrd == ("0" :> 0) @@ ("1" :> 1) @@ ("2" :> 2)

\* Python's a <= b on strings: lexicographic, a proper prefix first.
RECURSIVE StrLe(_, _)
StrLe(a, b) ==
    IF a = <<>> THEN TRUE
    ELSE IF b = <<>> THEN FALSE
    ELSE IF Head(a) # Head(b) THEN CharOrd[Head(a)] < CharOrd[Head(b)]
    ELSE StrLe(Tail(a), Tail(b))

\* The messages of warnings(), by their text's parts.
MsgUnable(sha, repo) ==
    [ kind |-> "unable to find revision", which |-> "",
      new |-> EmptyStr, new_date |-> EmptyStr,
      old |-> Short(sha), old_date |-> EmptyStr, repo |-> repo ]

MsgInversion(new_revision, new_date, old_revision, old_date) ==
    [ kind |-> "created before old revision", which |-> "",
      new |-> Short(new_revision), new_date |-> new_date,
      old |-> Short(old_revision), old_date |-> old_date, repo |-> EmptyStr ]

MsgNoRevision(missing_revision) ==
    [ kind |-> "no revision to compare", which |-> missing_revision,
      new |-> EmptyStr, new_date |-> EmptyStr,
      old |-> EmptyStr, old_date |-> EmptyStr, repo |-> EmptyStr ]

\* What the remote answers to one commit lookup: a response with a date, a
\* response that carries no date, an HTTPError (404), or any other failure
\* of urlopen or of reading the response (URLError, a timeout, bad JSON).
Answer(kind, date) == [ kind |-> kind, date |-> date ]

\* commit_date, the closure of warnings(): the exception that leaves it ("" for
\* none), the date it returns and the warning it appends.
commit_date(git_repo, sha, answer) ==
    CASE answer.kind = "ok" ->
           [ exc |-> "", date |-> answer.date, warn |-> <<>> ]
      [] answer.kind = "HTTPError" ->
           [ exc |-> "", date |-> EmptyStr, warn |-> <<MsgUnable(sha, git_repo)>> ]
      [] OTHER ->
           [ exc |-> answer.kind, date |-> EmptyStr, warn |-> <<>> ]

\* A mutant of inverted: identical revisions are not excluded.
inverted_same_revision(old_date, new_date, old_revision, new_revision) ==
    Truthy(old_date) /\ Truthy(new_date) /\ StrLe(new_date, old_date)

\* The condition of the time-inversion warning.
inverted(old_date, new_date, old_revision, new_revision) ==
    /\ Truthy(old_date)
    /\ Truthy(new_date)
    /\ StrLe(new_date, old_date)
    /\ old_revision # new_revision

\* A mutant of missing_revision: the new revision is looked at first.
missing_revision_new_first(rc) ==
    IF Truthy(rc.new_revision) THEN "old" ELSE "new"

\* Which revision the "no ... revision to compare" message names.
missing_revision(rc) ==
    IF Truthy(rc.old_revision) THEN "new" ELSE "old"

\* RepoChange.warnings against the answers the remote gives to the lookup of
\* the old and of the new revision: the exception that leaves the call ("" for
\* none), the list returned, and the revisions looked up, in order.
warnings(rc, old_answer, new_answer) ==
    IF Truthy(rc.git_repo) /\ Truthy(rc.old_revision) /\ Truthy(rc.new_revision)
    THEN LET o == commit_date(rc.git_repo, rc.old_revision, old_answer)
             n == commit_date(rc.git_repo, rc.new_revision, new_answer)
         IN  IF o.exc # ""
             THEN [ exc |-> o.exc, ret |-> <<>>, lookups |-> <<rc.old_revision>> ]
             ELSE IF n.exc # ""
             THEN [ exc |-> n.exc, ret |-> <<>>,
                    lookups |-> <<rc.old_revision, rc.new_revision>> ]
             ELSE [ exc |-> "",
                    ret |-> o.warn \o n.warn \o
                            (IF inverted(o.date, n.date,
                                         rc.old_revision, rc.new_revision)
                             THEN <<MsgInversion(rc.new_revision, n.date,
                                                 rc.old_revision, o.date)>>
                             ELSE <<>>),
                    lookups |-> <<rc.old_revision, rc.new_revision>> ]
    ELSE IF Truthy(rc.git_repo)
    THEN [ exc |-> "", ret |-> <<MsgNoRevision(missing_revision(rc))>>,
           lookups |-> <<>> ]
    ELSE [ exc |-> "", ret |-> <<>>, lookups |-> <<>> ]

VARIABLES
    \* SpecName: the parts of a reference repository[:tag][@digest] and the
    \* Image objects constructed from it (at most one per constructor).
    refParts, image, scriptImage,
    \* SpecBundle: a Catalog's entries and _bundles cache, and the last
    \* get_bundle call: its argument, the entries it started from, its outcome.
    entries, _bundles, lookup,
    \* SpecWarnings: a RepoChange and its last warnings() call: the answers of
    \* the remote and the outcome.
    change, warned,
    \* SpecImage: the Image objects (their fields and the functools caches of
    \* their methods), the Catalog object when constructed, the images in
    \* podman's local store, the containers podman created (by container id:
    \* the creating object and its creation count), the warnings logged, the module's two tracking lists,
    \* the last call with the exception that left it ("" for none), and the
    \* Catalog.clean calls made.
    images, catalog, store, containers, log, pulled_images, created_images,
    last, cleans,
    \* Spec (get_changes): the relatedImages of the two bundles as declared,
    \* the value of each Bundle.images once evaluated (<<>> before), the
    \* position in get_changes, its loop index, its two dicts (in insertion
    \* order), the warnings it logged, and what it did with each group.
    new_bundle, old_bundle, new_images, old_images, pc, idx,
    images_by_image_repo, changes, skipped, trace,
    \* SpecCompare: the action compare was asked for, its output["changes"]
    \* dict (in insertion order), and the exception that left it ("" for
    \* none).
    action, output, aborted,
    \* SpecCommits: a RepoChange with the functools cache of its _comparison
    \* (empty while nothing is cached), the outcomes of the urlopen calls made for
    \* it, and the outcomes of its commits() calls.
    repo_change, fetched, got,
    \* SpecRun: one run of __main__: the program and command, the position in it,
    \* the image being resolved, and the exception that is leaving it ("" for
    \* none). In a run, catalog holds the Catalog objects bound to the locals
    \* (catalog, or old_catalog and new_catalog).
    run,
    \* SpecScript: per Image object of the script, its downstream_commit and
    \* upstream_commit calls so far: the method, what it returned, and whether
    \* the call ran podman.
    returns

nameVars == <<refParts, image, scriptImage>>

bundleVars == <<entries, _bundles, lookup>>

warnVars == <<change, warned>>

imageVars == <<images, catalog, store, containers, log, pulled_images,
               created_images, last, cleans>>

changeVars == <<new_bundle, old_bundle, new_images, old_images, pc, idx,
                images_by_image_repo, changes, skipped, trace>>

compareVars == <<action, output, aborted>>

commitsVars == <<repo_change, fetched, got>>

runVars == <<run>>

scriptVars == <<returns>>

vars == <<nameVars, bundleVars, warnVars, imageVars, changeVars, compareVars, commitsVars, runVars, scriptVars>>

\* ----------------------------------------------------- SpecName: references

Registries == { <<>>, <<"quay.io", "/">>, <<"localhost", ":", "5000", "/">> }

Segments == { <<"pipelines-controller-rhel9">>, <<"openshift-pipelines">> }

RECURSIVE Paths(_)
Paths(n) ==
    IF n = 1 THEN Segments
    ELSE Paths(n - 1) \cup { p \o <<"/">> \o s : p \in Paths(n - 1), s \in Segments }

Tags == { None, <<"v1">>, <<"latest">> }

Digests == { None, <<"sha256", ":", "d1">>, <<"sha256", ":", "d2">> }

\* The reference text repository[:tag][@digest].
RefOf(p) ==
    p.registry \o p.path
      \o (IF p.tag = None THEN <<>> ELSE <<":">> \o p.tag)
      \o (IF p.digest = None THEN <<>> ELSE <<"@">> \o p.digest)

\* The last path segment of the repository part.
ComponentOf(p) == Last(Split(p.path, "/"))

NameIdle == refParts = <<>> /\ image = <<>> /\ scriptImage = <<>>

BundleIdle == entries = <<>> /\ _bundles = <<>> /\ lookup = <<>>

WarnIdle == change = <<>> /\ warned = <<>>

ImageIdle ==
    /\ images = <<>>
    /\ catalog = <<>>
    /\ store = {}
    /\ containers = <<>>
    /\ log = {}
    /\ pulled_images = <<>>
    /\ created_images = <<>>
    /\ last = [ op |-> "", exc |-> "" ]
    /\ cleans = 0

ChangeIdle ==
    /\ new_bundle = <<>>
    /\ old_bundle = <<>>
    /\ new_images = <<>>
    /\ old_images = <<>>
    /\ pc = ""
    /\ idx = 0
    /\ images_by_image_repo = <<>>
    /\ changes = <<>>
    /\ skipped = <<>>
    /\ trace = <<>>

CompareIdle ==
    /\ action = ""
    /\ output = <<>>
    /\ aborted = ""

CommitsIdle ==
    /\ repo_change = <<>>
    /\ fetched = <<>>
    /\ got = <<>>

RunIdle ==
    /\ run = <<>>

ScriptIdle ==
    /\ returns = <<>>

NameInit ==
    /\ BundleIdle
    /\ WarnIdle
    /\ ImageIdle
    /\ ChangeIdle
    /\ CompareIdle
    /\ CommitsIdle
    /\ RunIdle
    /\ ScriptIdle
    /\ refParts \in [ registry : Registries, path : Paths(MaxSegs),
                      tag : Tags, digest : Digests ]
    /\ image = <<>>
    /\ scriptImage = <<>>

NewImage ==
    /\ image = <<>>
    /\ image' = <<Image(RefOf(refParts))>>
    /\ UNCHANGED <<refParts, scriptImage, bundleVars, warnVars, imageVars, changeVars, compareVars, commitsVars, runVars, scriptVars>>

NewScriptImage ==
    /\ scriptImage = <<>>
    /\ scriptImage' = <<ScriptImage(RefOf(refParts))>>
    /\ UNCHANGED <<refParts, image, bundleVars, warnVars, imageVars, changeVars, compareVars, commitsVars, runVars, scriptVars>>

NameNext == NewImage \/ NewScriptImage

SpecName == NameInit /\ [][NameNext]_vars

\* C6: for every reference repository[:tag][@digest] the component name that
\* Image.__init__ computes is the last path segment of the repository part,
\* whatever the tag and the digest, and the computation never raises.
C6_NameIgnoresTagAndDigest ==
    /\ \A i \in 1..Len(image) :
           image[i].exc = "" /\ image[i].image_repo = ComponentOf(refParts)
    /\ \A i \in 1..Len(scriptImage) :
           scriptImage[i].exc = ""
           /\ scriptImage[i].image_repo = ComponentOf(refParts)

\* The part of C6 the code keeps: without a tag the name is the last segment.
C6_DigestIgnored ==
    \A i \in 1..Len(image) :
        refParts.tag = None => image[i].image_repo = ComponentOf(refParts)

C6_TaggedImage ==
    /\ Len(image) = 1
    /\ refParts.tag # None
    /\ image[1].image_repo # ComponentOf(refParts)

\* ------------------------------------------------- SpecBundle: bundle lookup

\* Bundle names and lookup prefixes, one token per character.
BundleNames == { <<"v", "1">>, <<"v", "1", "0">>, <<"v", "2">> }

Prefixes == { <<"v">>, <<"v", "1">>, <<"v", "1", "0">>, <<"v", "3">> }

Records == [ schema : {"olm.bundle", "olm.channel"}, name : BundleNames ]

RECURSIVE SeqsUpTo(_, _)
SeqsUpTo(S, n) ==
    IF n = 0 THEN { <<>> }
    ELSE SeqsUpTo(S, n - 1)
         \cup { Append(q, x) : q \in { r \in SeqsUpTo(S, n - 1) : Len(r) = n - 1 },
                               x \in S }

BundleInit ==
    /\ NameIdle
    /\ WarnIdle
    /\ ImageIdle
    /\ ChangeIdle
    /\ CompareIdle
    /\ CommitsIdle
    /\ RunIdle
    /\ ScriptIdle
    /\ entries \in SeqsUpTo(Records, MaxEntries)
    /\ _bundles = <<>>
    /\ lookup = <<>>

\* A call of Catalog.bundles().
CallBundles ==
    /\ _bundles' = bundles(_bundles, entries)
    /\ UNCHANGED <<entries, lookup, nameVars, warnVars, imageVars, changeVars, compareVars, commitsVars, runVars, scriptVars>>

\* A call of Catalog.get_bundle(name).
CallGetBundle ==
    \E name \in Prefixes :
        LET bs == bundles(_bundles, entries)
            r == get_bundle(bs, name)
        IN  /\ _bundles' = bs
            /\ lookup' = <<[ name |-> name, before |-> entries,
                             exc |-> r.exc, ret |-> r.ret ]>>
            /\ UNCHANGED <<entries, nameVars, warnVars, imageVars, changeVars, compareVars, commitsVars, runVars, scriptVars>>

BundleNext == CallBundles \/ CallGetBundle

SpecBundle == BundleInit /\ [][BundleNext]_vars

\* The positions of the olm.bundle records whose name starts with name.
MatchingRecords(name) ==
    { i \in 1..Len(entries) :
        entries[i].schema = "olm.bundle" /\ StartsWith(entries[i].name, name) }

\* C10: get_bundle(prefix) returns a Bundle exactly when one olm.bundle
\* record of the catalog has a name starting with prefix, and then it is that
\* record's Bundle; with no such record or with several it raises and returns
\* nothing; the catalog's records are the same after the call.
C10_UniquePrefixMatch ==
    \A k \in 1..Len(lookup) :
        LET l == lookup[k]
            hits == MatchingRecords(l.name)
        IN  /\ (l.exc = "" /\ Len(l.ret) = 1) <=> Cardinality(hits) = 1
            /\ Cardinality(hits) = 1 =>
                   \A i \in hits : l.ret[1].data = entries[i]
            /\ Cardinality(hits) # 1 => l.exc # "" /\ l.ret = <<>>
            /\ entries = l.before

\* A lookup that returned a Bundle although an earlier olm.bundle record and a
\* channel record do not match, and one that raised on an ambiguous prefix.
C10_Found ==
    /\ Len(lookup) = 1
    /\ lookup[1].exc = ""
    /\ Len(lookup[1].ret) = 1
    /\ Len(entries) = 3
    /\ lookup[1].ret[1].data = entries[3]
    /\ entries[1].schema = "olm.bundle"
    /\ entries[2].schema = "olm.channel"
    /\ StartsWith(entries[2].name, lookup[1].name)

\* ------------------------------------------- SpecWarnings: RepoChange.warnings

\* Revisions: absent, empty, two that share their first eight characters,
\* and one shorter than eight characters.
Revisions ==
    { None, EmptyStr,
      <<"a", "b", "c", "d", "e", "f", "0", "1", "2">>,
      <<"a", "b", "c", "d", "e", "f", "0", "1", "3">>,
      <<"9", "9", "9">> }

Slugs == { None, EmptyStr, <<"tektoncd/pipeline">> }

\* Commit dates, all in one fixed-width format.
Dates == { <<"0", "1">>, <<"0", "2">>, <<"1", "0">> }

Answers ==
    { Answer("ok", d) : d \in Dates \cup { EmptyStr } }
      \cup { Answer("HTTPError", EmptyStr), Answer("URLError", EmptyStr) }

WarnInit ==
    /\ NameIdle
    /\ BundleIdle
    /\ ImageIdle
    /\ ChangeIdle
    /\ CompareIdle
    /\ CommitsIdle
    /\ RunIdle
    /\ ScriptIdle
    /\ \E r \in Slugs, o \in Revisions, n \in Revisions :
           change = <<RepoChange(<<"pipelines-controller-rhel9">>, r, o, n)>>
    /\ warned = <<>>

\* A call of RepoChange.warnings(); nothing is memoized, so every call asks
\* the remote again.
CallWarnings ==
    \E old_answer \in Answers, new_answer \in Answers :
        LET w == warnings(change[1], old_answer, new_answer)
        IN  /\ warned' = <<[ old_answer |-> old_answer, new_answer |-> new_answer,
                             exc |-> w.exc, ret |-> w.ret, lookups |-> w.lookups ]>>
            /\ UNCHANGED <<change, nameVars, bundleVars, imageVars, changeVars, compareVars, commitsVars, runVars, scriptVars>>

WarnNext == CallWarnings

SpecWarnings == WarnInit /\ [][WarnNext]_vars

\* The time a date names.
DateNum(d) == 10 * CharOrd[d[1]] + CharOrd[d[2]]

Resolved(answer) == answer.kind = "ok" /\ answer.date # EmptyStr

BothPresent(rc) == Truthy(rc.old_revision) /\ Truthy(rc.new_revision)

HasInversion(ret) ==
    \E i \in 1..Len(ret) : ret[i].kind = "created before old revision"

\* C7: with both revisions present, warnings() holds the time-inversion
\* warning exactly when both commit dates were resolved, the revisions differ
\* and the new revision's date is not after the old one's.
C7_InversionIff ==
    \A k \in 1..Len(warned) :
        LET rc == change[1]
            w == warned[k]
        IN  BothPresent(rc) =>
              ( HasInversion(w.ret)
                <=> /\ Len(w.lookups) = 2
                    /\ Resolved(w.old_answer)
                    /\ Resolved(w.new_answer)
                    /\ rc.old_revision # rc.new_revision
                    /\ DateNum(w.new_answer.date) <= DateNum(w.old_answer.date) )

\* Two different revisions, both dated, the new one not after the old one:
\* the warning is there, with both short revisions and both dates.
C7_Inverted ==
    /\ Len(warned) = 1
    /\ BothPresent(change[1])
    /\ change[1].old_revision # change[1].new_revision
    /\ Short(change[1].old_revision) = Short(change[1].new_revision)
    /\ warned[1].old_answer = Answer("ok", <<"0", "2">>)
    /\ warned[1].new_answer = Answer("ok", <<"0", "2">>)
    /\ warned[1].ret = <<MsgInversion(change[1].new_revision, <<"0", "2">>,
                                      change[1].old_revision, <<"0", "2">>)>>

\* A lookup that failed: any answer but a response that carries a date.
Failed(answer) == ~Resolved(answer)

Unables(ret) == SelectSeq(ret, LAMBDA m : m.kind = "unable to find revision")

\* C8: with both revisions present, every revision whose date lookup fails,
\* in whatever way (a response without a date included), adds exactly one
\* "unable to find revision" message, and warnings() returns normally.
C8_EveryFailureWarned ==
    \A k \in 1..Len(warned) :
        LET rc == change[1]
            w == warned[k]
        IN  (BothPresent(rc) /\ Truthy(rc.git_repo)) =>
              /\ w.exc = ""
              /\ Unables(w.ret) =
                   (IF Failed(w.old_answer)
                    THEN <<MsgUnable(rc.old_revision, rc.git_repo)>> ELSE <<>>)
                   \o (IF Failed(w.new_answer)
                       THEN <<MsgUnable(rc.new_revision, rc.git_repo)>> ELSE <<>>)

\* The lookup of the new revision failed with something other than an
\* HTTPError: warnings() raised, and returned no list.
C8_Raised ==
    /\ Len(warned) = 1
    /\ BothPresent(change[1])
    /\ Truthy(change[1].git_repo)
    /\ warned[1].old_answer.kind = "ok"
    /\ warned[1].new_answer.kind = "URLError"
    /\ warned[1].exc = "URLError"
    /\ warned[1].ret = <<>>

OneMissing(rc) == ~Truthy(rc.old_revision) \/ ~Truthy(rc.new_revision)

ExpectedMissing(rc) == IF ~Truthy(rc.old_revision) THEN "old" ELSE "new"

\* C9 as claimed: whenever a revision is missing, warnings() looks nothing up
\* and returns the one message "no {which} revision to compare", which being
\* "old" when the old revision is missing and "new" otherwise.
C9_MissingRevisionAlways ==
    \A k \in 1..Len(warned) :
        OneMissing(change[1]) =>
            /\ warned[k].exc = ""
            /\ warned[k].lookups = <<>>
            /\ warned[k].ret = <<MsgNoRevision(ExpectedMissing(change[1]))>>

\* C9 as amended: that holds of a RepoChange whose repo slug is not empty;
\* without a repo slug warnings() looks nothing up and returns no message.
C9_MissingRevisionWithRepo ==
    \A k \in 1..Len(warned) :
        OneMissing(change[1]) =>
            /\ warned[k].exc = ""
            /\ warned[k].lookups = <<>>
            /\ warned[k].ret =
                 IF Truthy(change[1].git_repo)
                 THEN <<MsgNoRevision(ExpectedMissing(change[1]))>>
                 ELSE <<>>

\* Both revisions missing, under a repo slug: the message names "old".
C9_BothMissing ==
    /\ Len(warned) = 1
    /\ Truthy(change[1].git_repo)
    /\ change[1].old_revision = None
    /\ change[1].new_revision = EmptyStr
    /\ warned[1].ret = <<MsgNoRevision("old")>>

\* ------------------------------------- SpecImage: Image and Catalog objects

ImageIds == 1..NumImages

ImageRefs ==
    { <<"quay.io", "/", "pipelines-controller-rhel9", "@", "sha256", ":", "d1">>,
      <<"quay.io", "/", "pipelines-cli-tkn-rhel9", "@", "sha256", ":", "d2">> }

\* The labels podman inspect reports: "vcs-ref" and "upstream-vcs-ref", each
\* absent (None, what dict.get gives) or set; {} has both absent.
Labels(vcs_ref, upstream_vcs_ref) ==
    [ vcs_ref |-> vcs_ref, upstream_vcs_ref |-> upstream_vcs_ref ]

NoLabels == Labels(None, None)

LabelSets ==
    { Labels(<<"d0wn">>, None), Labels(<<"d0wn">>, <<"up1">>),
      Labels(None, EmptyStr) }

\* What podman inspect answers: one object with labels, several objects, or
\* a failure.
Inspections ==
    { [ kind |-> "ok", labels |-> l ] : l \in LabelSets }
      \cup { [ kind |-> "many", labels |-> NoLabels ],
             [ kind |-> "fail", labels |-> NoLabels ] }

\* What creating the container and copying /kodata/HEAD out of it gives: a
\* failed create, a failed copy, or the file's text.
HeadFiles ==
    { [ kind |-> "create fails", text |-> EmptyStr ],
      [ kind |-> "cp fails", text |-> EmptyStr ],
      [ kind |-> "ok", text |-> <<"up2", "\n">> ],
      [ kind |-> "ok", text |-> <<"\n">> ] }

Whitespace == { " ", "\n", "\t" }

\* str.strip().
RECURSIVE Strip(_)
Strip(t) ==
    IF t = <<>> THEN t
    ELSE IF Head(t) \in Whitespace THEN Strip(Tail(t))
    ELSE IF Last(t) \in Whitespace THEN Strip(SubSeq(t, 1, Len(t) - 1))
    ELSE t

\* An Image object after __init__: its fields, the still empty caches of its
\* @cache methods (<<>> is "not called yet", <<v>> is "returned v"), and the
\* counts of its _pull calls and of the containers created for it.
NewResolver(image_ref) ==
    [ image_ref     |-> image_ref,
      image_repo    |-> Image(image_ref).image_repo,
      _container_id |-> <<>>,
      c_labels      |-> <<>>,
      c_container   |-> <<>>,
      c_downstream  |-> <<>>,
      c_upstream    |-> <<>>,
      c_exists      |-> <<>>,
      pulls         |-> 0,
      creates       |-> 0,
      upstream_returns |-> {} ]

\* The state the methods act on, as one value.
World == [ images |-> images, store |-> store, containers |-> containers,
           log |-> log ]

InList(x, list) == \E k \in 1..Len(list) : list[k] = x

\* Image._pull: nothing appends to pulled_images, so the warning's test reads
\* the list as the module created it.
_pull(w, i, pull_ok) ==
    LET ref == w.images[i].image_ref
        w1 == [ w EXCEPT
                  !.log = IF InList(ref, pulled_images)
                          THEN @ \cup { [ msg |-> "pulled more than once",
                                          ref |-> ref ] }
                          ELSE @,
                  !.images[i].pulls = @ + 1 ]
    IN  IF ref \in w.store
        THEN [ w |-> w1, exc |-> "" ]
        ELSE IF pull_ok
        THEN [ w |-> [ w1 EXCEPT !.store = @ \cup { ref } ], exc |-> "" ]
        ELSE [ w |-> w1, exc |-> "CalledProcessError" ]

\* Image._labels (@cache).
_labels(w, i, pull_ok, inspection) ==
    IF w.images[i].c_labels # <<>>
    THEN [ w |-> w, ret |-> w.images[i].c_labels[1] ]
    ELSE LET p == _pull(w, i, pull_ok)
             ret == IF p.exc # "" \/ inspection.kind # "ok"
                    THEN NoLabels
                    ELSE inspection.labels
         IN  [ w |-> [ p.w EXCEPT !.images[i].c_labels = <<ret>> ], ret |-> ret ]

\* Image._get_container_id (@cache; an exception is not cached).
_get_container_id(w, i, create_ok) ==
    IF w.images[i].c_container # <<>>
    THEN [ w |-> w, exc |-> "", ret |-> w.images[i].c_container ]
    ELSE LET ref == w.images[i].image_ref
             w1 == [ w EXCEPT
                       !.log = IF InList(ref, created_images)
                               THEN @ \cup { [ msg |-> "created more than once",
                                               ref |-> ref ] }
                               ELSE @ ]
             id == <<i, w.images[i].creates + 1>>
         IN  IF ~create_ok
             THEN [ w |-> w1, exc |-> "CalledProcessError", ret |-> <<>> ]
             ELSE [ w |-> [ w1 EXCEPT
                              !.containers =
                                  @ @@ (id :> [ live |-> TRUE, rms |-> 0 ]),
                              !.images[i]._container_id = <<id>>,
                              !.images[i].c_container = <<id>>,
                              !.images[i].creates = @ + 1 ],
                    exc |-> "", ret |-> <<id>> ]

\* Image.downstream_commit (@cache).
downstream_commit(w, i, pull_ok, inspection) ==
    IF w.images[i].c_downstream # <<>>
    THEN [ w |-> w, ret |-> w.images[i].c_downstream[1] ]
    ELSE LET l == _labels(w, i, pull_ok, inspection)
             ret == l.ret.vcs_ref
         IN  [ w |-> [ l.w EXCEPT !.images[i].c_downstream = <<ret>> ],
               ret |-> ret ]

\* Image.upstream_commit (@cache): the label when it is set and not empty,
\* else the stripped text of /kodata/HEAD, else None.
upstream_commit(w, i, pull_ok, inspection, head) ==
    IF w.images[i].c_upstream # <<>>
    THEN [ w |-> w, ret |-> w.images[i].c_upstream[1] ]
    ELSE LET l == _labels(w, i, pull_ok, inspection)
             g == _get_container_id(l.w, i, head.kind # "create fails")
             viaLabel == Truthy(l.ret.upstream_vcs_ref)
             ret == IF viaLabel THEN l.ret.upstream_vcs_ref
                    ELSE IF g.exc # "" \/ head.kind # "ok" THEN None
                    ELSE Strip(head.text)
             w2 == IF viaLabel THEN l.w ELSE g.w
         IN  [ w |-> [ w2 EXCEPT !.images[i].c_upstream = <<ret>> ], ret |-> ret ]

\* Image.exists (@cache).
exists(w, i, pull_ok) ==
    IF w.images[i].c_exists # <<>>
    THEN [ w |-> w, ret |-> w.images[i].c_exists[1] ]
    ELSE LET p == _pull(w, i, pull_ok)
             ret == (p.exc = "")
         IN  [ w |-> [ p.w EXCEPT !.images[i].c_exists = <<ret>> ], ret |-> ret ]

\* podman container rm id (check=True): it fails on a container that is gone.
ContainerRm(w, id) ==
    [ w |-> [ w EXCEPT !.containers[id].rms = @ + 1,
                       !.containers[id].live = FALSE ],
      exc |-> IF w.containers[id].live THEN "" ELSE "CalledProcessError" ]

\* Image.clean.
clean(w, i) ==
    IF w.images[i]._container_id # <<>>
    THEN ContainerRm(w, w.images[i]._container_id[1])
    ELSE [ w |-> w, exc |-> "" ]

\* Bundle.clean over the images from position i on: the first exception ends
\* the loop.
RECURSIVE BundleClean(_, _)
BundleClean(w, i) ==
    IF i > Len(w.images) THEN [ w |-> w, exc |-> "" ]
    ELSE LET c == clean(w, i)
         IN  IF c.exc # "" THEN c ELSE BundleClean(c.w, i + 1)

\* Catalog.clean: the catalog's own container, then its bundles' images.
CatalogClean(w, cat) ==
    LET own == IF cat.container_id # <<>>
               THEN ContainerRm(w, cat.container_id[1])
               ELSE [ w |-> w, exc |-> "" ]
    IN  IF own.exc # "" THEN own ELSE BundleClean(own.w, 1)

ImageInit ==
    /\ NameIdle
    /\ BundleIdle
    /\ WarnIdle
    /\ ChangeIdle
    /\ CompareIdle
    /\ CommitsIdle
    /\ RunIdle
    /\ ScriptIdle
    /\ images \in { [ i \in ImageIds |-> NewResolver(ref[i]) ] :
                    ref \in [ ImageIds -> ImageRefs ] }
    /\ catalog = <<>>
    /\ store = {}
    /\ containers = <<>>
    /\ log = {}
    /\ pulled_images = <<>>
    /\ created_images = <<>>
    /\ last = [ op |-> "", exc |-> "" ]
    /\ cleans = 0

Put(w) ==
    /\ images' = w.images
    /\ store' = w.store
    /\ containers' = w.containers
    /\ log' = w.log
    /\ UNCHANGED <<pulled_images, created_images>>

\* Catalog.__init__ with _pull_data: a failed create raises RuntimeError; a
\* failed copy raises after the container exists, and no Catalog object is
\* bound in either case.
NewCatalog ==
    /\ catalog = <<>>
    /\ last.op = ""
    /\ \E create_ok \in BOOLEAN, cp_ok \in BOOLEAN :
          LET id == <<0, 1>>
              made == containers @@ (id :> [ live |-> TRUE, rms |-> 0 ])
          IN  /\ containers' = IF create_ok THEN made ELSE containers
              /\ catalog' = IF create_ok /\ cp_ok
                            THEN <<[ container_id |-> <<id>> ]>>
                            ELSE <<>>
              /\ last' = [ op |-> "Catalog",
                           exc |-> IF ~create_ok THEN "RuntimeError"
                                   ELSE IF ~cp_ok THEN "CalledProcessError"
                                   ELSE "" ]
    /\ UNCHANGED <<images, store, log, pulled_images, created_images, cleans,
                   nameVars, bundleVars, warnVars, changeVars, compareVars, commitsVars, runVars, scriptVars>>

\* The answers podman can give to the commands a call runs: podman pull runs
\* only for an image that is not in the local store, podman inspect only
\* while _labels has cached nothing, create and cp only while upstream_commit
\* has cached nothing.
PullOutcomes(i) ==
    IF images[i].image_ref \in store THEN { TRUE } ELSE BOOLEAN

InspectOutcomes(i) ==
    IF images[i].c_labels # <<>>
    THEN { [ kind |-> "fail", labels |-> NoLabels ] }
    ELSE Inspections

HeadOutcomes(i) ==
    IF images[i].c_upstream # <<>>
    THEN { [ kind |-> "cp fails", text |-> EmptyStr ] }
    ELSE HeadFiles

CallDownstream(i) ==
    /\ catalog # <<>>
    /\ \E pull_ok \in PullOutcomes(i), inspection \in InspectOutcomes(i) :
          Put(downstream_commit(World, i, pull_ok, inspection).w)
    /\ last' = [ op |-> "downstream_commit", exc |-> "" ]
    /\ UNCHANGED <<catalog, cleans, nameVars, bundleVars, warnVars, changeVars, compareVars, commitsVars, runVars, scriptVars>>

CallUpstream(i) ==
    /\ catalog # <<>>
    /\ \E pull_ok \in PullOutcomes(i), inspection \in InspectOutcomes(i),
          head \in HeadOutcomes(i) :
          LET r == upstream_commit(World, i, pull_ok, inspection, head)
          IN  Put([ r.w EXCEPT !.images[i].upstream_returns = @ \cup { r.ret } ])
    /\ last' = [ op |-> "upstream_commit", exc |-> "" ]
    /\ UNCHANGED <<catalog, cleans, nameVars, bundleVars, warnVars, changeVars, compareVars, commitsVars, runVars, scriptVars>>

CallExists(i) ==
    /\ catalog # <<>>
    /\ \E pull_ok \in PullOutcomes(i) : Put(exists(World, i, pull_ok).w)
    /\ last' = [ op |-> "exists", exc |-> "" ]
    /\ UNCHANGED <<catalog, cleans, nameVars, bundleVars, warnVars, changeVars, compareVars, commitsVars, runVars, scriptVars>>

CallCatalogClean ==
    /\ catalog # <<>>
    /\ cleans < MaxCleans
    /\ LET c == CatalogClean(World, catalog[1])
       IN  Put(c.w) /\ last' = [ op |-> "Catalog.clean", exc |-> c.exc ]
    /\ cleans' = cleans + 1
    /\ UNCHANGED <<catalog, nameVars, bundleVars, warnVars, changeVars, compareVars, commitsVars, runVars, scriptVars>>

\* SpecImage: the resolver methods of the images of a catalog, in any order.
ImageNext ==
    \/ NewCatalog
    \/ \E i \in ImageIds : CallDownstream(i)
    \/ \E i \in ImageIds : CallUpstream(i)
    \/ \E i \in ImageIds : CallExists(i)

SpecImage == ImageInit /\ [][ImageNext]_vars

\* SpecClean: upstream resolution (the one caller of _get_container_id) and
\* Catalog.clean, in any order.
CleanNext ==
    \/ NewCatalog
    \/ \E i \in ImageIds : CallUpstream(i)
    \/ CallCatalogClean

SpecClean == ImageInit /\ [][CleanNext]_vars

\* C4: on one Image, whatever downstream_commit, upstream_commit and exists
\* calls are made, _pull runs at most once and at most one container is
\* created, and upstream_commit always returns the same value; and when an
\* instance fetches a reference another instance fetched already, a "pulled
\* more than once" warning is logged.
C4_FetchOnce ==
    /\ \A i \in ImageIds :
          /\ images[i].pulls <= 1
          /\ images[i].creates <= 1
          /\ Cardinality(images[i].upstream_returns) <= 1
    /\ \A i \in ImageIds, j \in ImageIds :
          ( /\ i # j
            /\ images[i].image_ref = images[j].image_ref
            /\ images[i].pulls > 0
            /\ images[j].pulls > 0 )
          => [ msg |-> "pulled more than once",
               ref |-> images[i].image_ref ] \in log

\* Two instances of one reference each resolved their upstream commit, each
\* ran _pull, and nothing was logged.
C4_SilentRefetch ==
    /\ images[1].image_ref = images[2].image_ref
    /\ images[1].c_upstream # <<>>
    /\ images[2].c_upstream # <<>>
    /\ images[1].pulls = 1
    /\ images[2].pulls = 1
    /\ log = {}

\* C5: however often Catalog.clean is called, every container created is
\* removed exactly once: a clean leaves every container removed, no container
\* is ever the target of a second removal, and no clean raises.
C5_CleanOnce ==
    /\ \A id \in DOMAIN containers : containers[id].rms <= 1
    /\ last.op = "Catalog.clean" =>
          /\ last.exc = ""
          /\ \A id \in DOMAIN containers :
                containers[id].rms = 1 /\ ~containers[id].live

\* The second Catalog.clean removed the catalog's container again, raised,
\* and left an image's container in place.
C5_SecondCleanRaises ==
    /\ cleans = 2
    /\ last = [ op |-> "Catalog.clean", exc |-> "CalledProcessError" ]
    /\ containers[<<0, 1>>].rms = 2
    /\ \E i \in ImageIds :
          /\ <<i, 1>> \in DOMAIN containers
          /\ containers[<<i, 1>>].live

\* --------------------------------------------------- Spec: get_changes

\* References of two versions of one component, of a second component of the
\* same upstream repository, of a component of another repository, of the
\* untracked component and of a component the table does not know.
ChangeRefs ==
    { <<"quay.io", "/", "pipelines-controller-rhel9", "@", "sha256", ":", "d1">>,
      <<"quay.io", "/", "pipelines-controller-rhel9", "@", "sha256", ":", "d2">>,
      <<"quay.io", "/", "pipelines-entrypoint-rhel9", "@", "sha256", ":", "d1">>,
      <<"quay.io", "/", "pipelines-cli-tkn-rhel9", "@", "sha256", ":", "d1">>,
      <<"quay.io", "/", "pipelines-opc-rhel9", "@", "sha256", ":", "d1">>,
      <<"quay.io", "/", "other-rhel9", "@", "sha256", ":", "d1">> }

\* relatedImages entries: named ones, and one with no name.
RelatedImages ==
    { [ name |-> <<"n">>, image |-> r ] : r \in ChangeRefs }
      \cup { [ name |-> EmptyStr,
               image |-> <<"quay.io", "/", "pipelines-cli-tkn-rhel9",
                           "@", "sha256", ":", "d1">> ] }

\* What Image.upstream_commit can return: None, an empty text, a commit.
UpstreamOutcomes == { None, EmptyStr, <<"up1">>, <<"up2">> }

\* Bundle.images, first half: the references of the entries that carry both
\* an image and a name.
RECURSIVE image_list(_)
image_list(related) ==
    IF related = <<>> THEN <<>>
    ELSE (IF Truthy(Head(related).image) /\ Truthy(Head(related).name)
          THEN <<Head(related).image>> ELSE <<>>)
         \o image_list(Tail(related))

Range(q) == { q[k] : k \in 1..Len(q) }

\* The orders a Python set of strings can be iterated in: any (string hashes
\* are randomized per process).
Orders(S) ==
    { f \in [ 1..Cardinality(S) -> S ] :
        \A a \in 1..Cardinality(S), b \in 1..Cardinality(S) :
            a # b => f[a] # f[b] }

\* Bundle.images, second half: an Image per distinct reference, in the order
\* the set gives them.
BundleImages(related) ==
    { [ k \in 1..Len(o) |-> Image(o[k]) ] : o \in Orders(Range(image_list(related))) }

\* dict, as its items in insertion order.
DictHas(d, k) == \E n \in 1..Len(d) : d[n].k = k

DictGet(d, k) == d[CHOOSE n \in 1..Len(d) : d[n].k = k].v

\* d[k] = v: a key that is there keeps its place.
DictPut(d, k, v) ==
    IF DictHas(d, k)
    THEN [ n \in 1..Len(d) |-> IF d[n].k = k THEN [ k |-> k, v |-> v ] ELSE d[n] ]
    ELSE Append(d, [ k |-> k, v |-> v ])

\* The first loop's body: images_by_image_repo[img.image_repo] = [img].
add_new(d, img) == DictPut(d, img.image_repo, <<img>>)

\* The second loop's body: an old image joins the group of its name, when
\* there is one.
add_old(d, img) ==
    IF DictHas(d, img.image_repo) /\ DictGet(d, img.image_repo) # <<>>
    THEN DictPut(d, img.image_repo, DictGet(d, img.image_repo) \o <<img>>)
    ELSE d

\* Image.git_link, given what upstream_commit() returns.
git_link(img, upstream) ==
    IF Truthy(img.code_repo) /\ Truthy(upstream)
    THEN <<"github.com/">> \o img.code_repo \o <<"/commit/">> \o upstream
    ELSE None

\* A mutant of from_images: the two images change places.
from_images_swapped(old_image, old_upstream, new_image, new_upstream) ==
    RepoChange(old_image.image_repo, old_image.code_repo,
               new_upstream, old_upstream)

\* RepoChange.from_images.
from_images(old_image, old_upstream, new_image, new_upstream) ==
    RepoChange(new_image.image_repo, new_image.code_repo,
               old_upstream, new_upstream)

\* A mutant of already_changed: a later pair replaces the repo's change.
already_changed_never(chs, key) == FALSE

\* The third loop's test for a repo slug that has its change.
already_changed(chs, key) ==
    /\ DictHas(chs, key)
    /\ DictGet(chs, key).old_revision # None
    /\ DictGet(chs, key).new_revision # None

\* None in [old.git_link, new.git_link, old.upstream_commit(), ...].
no_upstream_info(old_image, old_upstream, new_image, new_upstream) ==
    \/ git_link(old_image, old_upstream) = None
    \/ git_link(new_image, new_upstream) = None
    \/ old_upstream = None
    \/ new_upstream = None

\* What the third loop did with a group: the component, the group's size, the
\* repo slug, the two upstream commits as a list (empty when they were not
\* asked for), and the outcome.
Did(repo, imgs, key, upstreams, what) ==
    [ repo |-> repo, n |-> Len(imgs), key |-> key, upstreams |-> upstreams,
      what |-> what ]

Init ==
    /\ NameIdle
    /\ BundleIdle
    /\ WarnIdle
    /\ ImageIdle
    /\ CompareIdle
    /\ CommitsIdle
    /\ RunIdle
    /\ ScriptIdle
    /\ new_bundle \in SeqsUpTo(RelatedImages, MaxImages)
    /\ old_bundle \in SeqsUpTo(RelatedImages, MaxImages)
    /\ new_images = <<>>
    /\ old_images = <<>>
    /\ pc = "new_images"
    /\ idx = 1
    /\ images_by_image_repo = <<>>
    /\ changes = <<>>
    /\ skipped = <<>>
    /\ trace = <<>>

\* for img in new_bundle.images: the cached property is evaluated.
NewImages ==
    /\ pc = "new_images"
    /\ \E imgs \in BundleImages(new_bundle) :
          /\ new_images' = <<imgs>>
          /\ pc' = IF imgs = <<>> THEN "old_images" ELSE "group_new"
    /\ UNCHANGED <<new_bundle, old_bundle, old_images, idx,
                   images_by_image_repo, changes, skipped, trace,
                   nameVars, bundleVars, warnVars, imageVars, compareVars, commitsVars, runVars, scriptVars>>

GroupNew ==
    /\ pc = "group_new"
    /\ images_by_image_repo' = add_new(images_by_image_repo, new_images[1][idx])
    /\ IF idx = Len(new_images[1])
       THEN pc' = "old_images" /\ idx' = 1
       ELSE pc' = pc /\ idx' = idx + 1
    /\ UNCHANGED <<new_bundle, old_bundle, new_images, old_images,
                   changes, skipped, trace,
                   nameVars, bundleVars, warnVars, imageVars, compareVars, commitsVars, runVars, scriptVars>>

PairsOrDone(d) == IF d = <<>> THEN "done" ELSE "pairs"

\* for img in old_bundle.images.
OldImages ==
    /\ pc = "old_images"
    /\ \E imgs \in BundleImages(old_bundle) :
          /\ old_images' = <<imgs>>
          /\ pc' = IF imgs = <<>> THEN PairsOrDone(images_by_image_repo)
                   ELSE "group_old"
    /\ UNCHANGED <<new_bundle, old_bundle, new_images, idx,
                   images_by_image_repo, changes, skipped, trace,
                   nameVars, bundleVars, warnVars, imageVars, compareVars, commitsVars, runVars, scriptVars>>

GroupOld ==
    /\ pc = "group_old"
    /\ images_by_image_repo' = add_old(images_by_image_repo, old_images[1][idx])
    /\ IF idx = Len(old_images[1])
       THEN pc' = PairsOrDone(images_by_image_repo') /\ idx' = 1
       ELSE pc' = pc /\ idx' = idx + 1
    /\ UNCHANGED <<new_bundle, old_bundle, new_images, old_images,
                   changes, skipped, trace,
                   nameVars, bundleVars, warnVars, imageVars, compareVars, commitsVars, runVars, scriptVars>>

\* One round of for repo, imgs in images_by_image_repo.items().
Pair ==
    /\ pc = "pairs"
    /\ LET repo == images_by_image_repo[idx].k
           imgs == images_by_image_repo[idx].v
       IN  IF Len(imgs) # 2
           THEN /\ skipped' = Append(skipped, [ msg |-> "missing image to compare",
                                                repo |-> repo ])
                /\ trace' = Append(trace, Did(repo, imgs, None, <<>>, "missing"))
                /\ changes' = changes
           ELSE LET new_image == imgs[1]
                    old_image == imgs[2]
                    key == new_image.code_repo
                IN  IF already_changed(changes, key)
                    THEN /\ trace' = Append(trace, Did(repo, imgs, key, <<>>,
                                                       "duplicate"))
                         /\ UNCHANGED <<skipped, changes>>
                    ELSE \E old_upstream \in UpstreamOutcomes,
                            new_upstream \in UpstreamOutcomes :
                           IF no_upstream_info(old_image, old_upstream,
                                               new_image, new_upstream)
                           THEN /\ skipped' =
                                     Append(skipped, [ msg |-> "no upstream info",
                                                       repo |-> repo ])
                                /\ trace' =
                                     Append(trace,
                                            Did(repo, imgs, key,
                                                <<old_upstream, new_upstream>>,
                                                "no upstream info"))
                                /\ changes' = changes
                           ELSE /\ changes' =
                                     DictPut(changes, key,
                                             from_images(old_image, old_upstream,
                                                         new_image, new_upstream))
                                /\ trace' =
                                     Append(trace,
                                            Did(repo, imgs, key,
                                                <<old_upstream, new_upstream>>,
                                                "change"))
                                /\ skipped' = skipped
    /\ IF idx = Len(images_by_image_repo)
       THEN pc' = "done" /\ idx' = 1
       ELSE pc' = pc /\ idx' = idx + 1
    /\ UNCHANGED <<new_bundle, old_bundle, new_images, old_images,
                   images_by_image_repo,
                   nameVars, bundleVars, warnVars, imageVars, compareVars, commitsVars, runVars, scriptVars>>

Next == NewImages \/ GroupNew \/ OldImages \/ GroupOld \/ Pair

Spec == Init /\ [][Next]_vars

\* The component names of a bundle, and the number of distinct references a
\* bundle has for one.
Components(related) == { Image(r).image_repo : r \in Range(image_list(related)) }

Occurrences(related, c) ==
    Cardinality({ r \in Range(image_list(related)) : Image(r).image_repo = c })

\* A group the third loop met whose two upstream commits were asked for and
\* are both there, for a component that maps to a repo slug.
Resolves(t) ==
    /\ t.n = 2
    /\ Truthy(t.key)
    /\ t.upstreams # <<>>
    /\ Truthy(t.upstreams[1])
    /\ Truthy(t.upstreams[2])

\* The first group in traversal order, for a repo slug, that resolves.
FirstResolved(key) ==
    CHOOSE m \in 1..Len(trace) :
        /\ trace[m].key = key
        /\ Resolves(trace[m])
        /\ \A j \in 1..(m - 1) : ~(trace[j].key = key /\ Resolves(trace[j]))

\* C1: get_changes holds at most one RepoChange per repo slug; it is the one
\* built from the first pair in traversal order, for that slug, whose old and
\* new upstream commits both resolve; a later pair never replaces it, and
\* every pair that resolves finds its slug with a RepoChange, whatever
\* happened to the pairs before it.
C1_FirstResolvedPairKept ==
    /\ \A a \in 1..Len(changes), b \in 1..Len(changes) :
           a # b => changes[a].k # changes[b].k
    /\ \A a \in 1..Len(changes) :
           /\ \E m \in 1..Len(trace) :
                 trace[m].key = changes[a].k /\ Resolves(trace[m])
           /\ LET t == trace[FirstResolved(changes[a].k)]
              IN  changes[a].v = RepoChange(t.repo, t.key,
                                            t.upstreams[1], t.upstreams[2])
    /\ \A m \in 1..Len(trace) :
           Resolves(trace[m]) => DictHas(changes, trace[m].key)

\* get_changes returned after dropping a later pair of a repo slug that had
\* its RepoChange.
C1_LaterPairDropped ==
    /\ pc = "done"
    /\ \E m \in 1..Len(trace), n \in 1..Len(trace) :
          /\ m < n
          /\ trace[m].key = trace[n].key
          /\ trace[m].what = "change"
          /\ trace[n].what = "duplicate"

\* get_changes returned a RepoChange built from the second pair of a repo
\* slug, the first pair having no upstream info.
C1_LaterPairEmitted ==
    /\ pc = "done"
    /\ \E m \in 1..Len(trace), n \in 1..Len(trace) :
          /\ m < n
          /\ trace[m].key = trace[n].key
          /\ trace[m].what = "no upstream info"
          /\ trace[n].what = "change"

Logged(msg, c) == \E n \in 1..Len(skipped) : skipped[n] = [ msg |-> msg, repo |-> c ]

OneSided ==
    (Components(new_bundle) \ Components(old_bundle))
      \cup (Components(old_bundle) \ Components(new_bundle))

\* C2: when get_changes has returned, no RepoChange is for a component that
\* only one bundle has, the skip "missing image to compare" is logged for
\* every such component, and every RepoChange is for a component that each
\* bundle has once.
C2_OneSidedSkippedAndLogged ==
    pc = "done" =>
       /\ \A c \in OneSided :
             /\ \A a \in 1..Len(changes) : changes[a].v.image_name # c
             /\ Logged("missing image to compare", c)
       /\ \A a \in 1..Len(changes) :
             /\ Occurrences(new_bundle, changes[a].v.image_name) = 1
             /\ Occurrences(old_bundle, changes[a].v.image_name) = 1

\* get_changes returned, and logged nothing for a component that only the old
\* bundle has.
C2_OldOnlySilent ==
    /\ pc = "done"
    /\ \E c \in Components(old_bundle) \ Components(new_bundle) :
          \A n \in 1..Len(skipped) : skipped[n].repo # c

\* The part of C2 the code keeps: no RepoChange for a one-sided component, a
\* logged skip for each component only the new bundle has.
OneSidedNoChange ==
    pc = "done" =>
       /\ \A c \in OneSided :
             \A a \in 1..Len(changes) : changes[a].v.image_name # c
       /\ \A c \in Components(new_bundle) \ Components(old_bundle) :
             Logged("missing image to compare", c)

\* The other part the code does not keep: a component the new bundle has
\* twice.
ChangeOnlyForOnceEach ==
    \A a \in 1..Len(changes) :
       /\ Occurrences(new_bundle, changes[a].v.image_name) = 1
       /\ Occurrences(old_bundle, changes[a].v.image_name) = 1

\* ---------------------------------------------------- SpecCompare: compare

MaxChanges == 2

Actions == { "show-heads", "show-compare-urls", "show-all-shas",
             "show-all-commits" }

\* What get_changes returns: per repo slug one RepoChange, of a component the
\* table maps to that slug, with both revisions there.
ChangeValues ==
    { RepoChange(c, TableGet(c), o, n) :
        c \in { r \in DOMAIN IMAGE_REPO_TO_GIT_REPO : Truthy(TableGet(r)) },
        o \in { r \in Revisions : Truthy(r) /\ r # None },
        n \in { r \in Revisions : Truthy(r) /\ r # None } }

ChangeDicts ==
    { d \in SeqsUpTo({ [ k |-> v.git_repo, v |-> v ] : v \in ChangeValues },
                     MaxChanges) :
        \A a \in 1..Len(d), b \in 1..Len(d) : a # b => d[a].k # d[b].k }

\* RepoChange.compare_url.
compare_url(rc) ==
    <<"https://api.github.com/repos/">> \o rc.git_repo \o <<"/compare/">>
      \o rc.old_revision \o <<"...">> \o rc.new_revision

\* What urlopen and json.load of the compare URL give: an exception, or a
\* document whose "commits" list has entries with or without a "sha".
Comparisons ==
    { [ exc |-> "URLError", commits |-> <<>> ],
      [ exc |-> "", commits |-> <<>> ],
      [ exc |-> "", commits |-> << [ sha |-> <<"s1">>, message |-> <<"m1">> ] >> ],
      [ exc |-> "", commits |-> << [ sha |-> None, message |-> <<"m1">> ] >> ] }

\* RepoChange.commits, given what the remote answers.
commits(comparison) == comparison

\* [commit.get("sha") for commit in change.commits() if commit.get("sha")].
RECURSIVE shas(_)
shas(cs) ==
    IF cs = <<>> THEN <<>>
    ELSE (IF Truthy(Head(cs).sha) /\ Head(cs).sha # None
          THEN <<Head(cs).sha>> ELSE <<>>) \o shas(Tail(cs))

\* A data dict: each key with the list of its value, empty when the key is
\* not there.
Data(old_sha, new_sha, change_url, commit_list) ==
    [ old_sha |-> old_sha, new_sha |-> new_sha, change_url |-> change_url,
      commits |-> commit_list, image |-> <<>>, warning |-> <<>> ]

\* The match statement of the loop: the list of data, empty when data is
\* still None.
match_action(act, rc, comparison) ==
    CASE act = "show-heads" ->
           << Data(<<rc.old_revision>>, <<rc.new_revision>>, <<>>, <<>>) >>
      [] act = "show-compare-urls" ->
           << Data(<<>>, <<>>, <<compare_url(rc)>>, <<>>) >>
      [] act = "show-all-shas" ->
           IF commits(comparison).exc = ""
           THEN << Data(<<>>, <<>>, <<>>, <<shas(commits(comparison).commits)>>) >>
           ELSE <<>>
      [] act = "show-all-commits" ->
           IF commits(comparison).exc = ""
           THEN << Data(<<>>, <<>>, <<>>, <<commits(comparison).commits>>) >>
           ELSE << Data(<<>>, <<>>, <<>>, <<>>) >>

\* The rest of the loop's body: the exception that leaves it ("" for none)
\* and the data stored under the repo slug.
loop_body(act, rc, comparison, old_answer, new_answer) ==
    LET data == match_action(act, rc, comparison)
        w == warnings(rc, old_answer, new_answer)
    IN  IF data = <<>>
        THEN [ exc |-> "TypeError", data |-> <<>> ]
        ELSE IF w.exc # ""
        THEN [ exc |-> w.exc, data |-> <<>> ]
        ELSE [ exc |-> "",
               data |-> << [ data[1] EXCEPT
                               !.image = <<rc.image_name>>,
                               !.warning = IF w.ret # <<>> THEN <<w.ret>>
                                           ELSE <<>> ] >> ]

CompareInit ==
    /\ CommitsIdle
    /\ RunIdle
    /\ ScriptIdle
    /\ NameIdle
    /\ BundleIdle
    /\ WarnIdle
    /\ ImageIdle
    /\ new_bundle = <<>>
    /\ old_bundle = <<>>
    /\ new_images = <<>>
    /\ old_images = <<>>
    /\ images_by_image_repo = <<>>
    /\ skipped = <<>>
    /\ trace = <<>>
    /\ changes \in ChangeDicts
    /\ action \in Actions
    /\ pc = IF changes = <<>> THEN "emit" ELSE "loop"
    /\ idx = 1
    /\ output = <<>>
    /\ aborted = ""

\* One round of for change in get_changes(old_bundle, new_bundle).
Change ==
    /\ pc = "loop"
    /\ \E comparison \in Comparisons, old_answer \in Answers, new_answer \in Answers :
          LET rc == changes[idx].v
              r == loop_body(action, rc, comparison, old_answer, new_answer)
          IN  IF r.exc # ""
              THEN /\ aborted' = r.exc
                   /\ pc' = "raised"
                   /\ UNCHANGED <<output, idx>>
              ELSE /\ output' = DictPut(output, rc.git_repo, r.data[1])
                   /\ aborted' = aborted
                   /\ IF idx = Len(changes)
                      THEN pc' = "emit" /\ idx' = idx
                      ELSE pc' = pc /\ idx' = idx + 1
    /\ UNCHANGED <<new_bundle, old_bundle, new_images, old_images,
                   images_by_image_repo, changes, skipped, trace, action,
                   nameVars, bundleVars, warnVars, imageVars, commitsVars, runVars, scriptVars>>

\* The output is written, as text or as JSON; compare returns.
Emit ==
    /\ pc = "emit"
    /\ pc' = "done"
    /\ UNCHANGED <<new_bundle, old_bundle, new_images, old_images, idx,
                   images_by_image_repo, changes, skipped, trace,
                   compareVars, nameVars, bundleVars, warnVars, imageVars, commitsVars, runVars, scriptVars>>

CompareNext == Change \/ Emit

SpecCompare == CompareInit /\ [][CompareNext]_vars

\* C3: compare never leaves its loop with an exception, whatever the action
\* and whatever the remote answers, and when it returns its output has an
\* entry for every RepoChange.
C3_CompareCompletes ==
    /\ pc # "raised"
    /\ aborted = ""
    /\ pc = "done" =>
          \A a \in 1..Len(changes) :
             /\ DictHas(output, changes[a].k)
             /\ DictGet(output, changes[a].k).image = <<changes[a].v.image_name>>

\* compare was asked for show-all-shas, the compare URL could not be
\* fetched, and the TypeError of data["image"] = ... left compare.
C3_TypeErrorOnFailedFetch ==
    /\ action = "show-all-shas"
    /\ pc = "raised"
    /\ aborted = "TypeError"

\* What holds of the three actions that do not leave data at None, when no
\* commit-date lookup raises: compare returns one entry per RepoChange.
CompletesUnlessRaised ==
    (pc = "raised") =>
       \/ action = "show-all-shas" /\ aborted = "TypeError"
       \/ aborted = "URLError"

\* ------------------------------------------- SpecCommits: RepoChange.commits

MaxCalls == 3

\* RepoChange._comparison under functools.cache: a cached document is
\* returned without a fetch; otherwise the compare URL is fetched, and the
\* document is cached only when urlopen and json.load return (an exception
\* leaves the cache as it was).
_comparison(cached, comparison) ==
    IF cached # <<>>
    THEN [ exc |-> "", commits |-> cached[1], cached |-> cached,
           fetched |-> <<>> ]
    ELSE IF comparison.exc # ""
    THEN [ exc |-> comparison.exc, commits |-> <<>>, cached |-> <<>>,
           fetched |-> <<comparison.exc>> ]
    ELSE [ exc |-> "", commits |-> comparison.commits,
           cached |-> <<comparison.commits>>, fetched |-> <<"ok">> ]

CommitsInit ==
    /\ RunIdle
    /\ ScriptIdle
    /\ NameIdle
    /\ BundleIdle
    /\ WarnIdle
    /\ ImageIdle
    /\ ChangeIdle
    /\ CompareIdle
    /\ \E v \in ChangeValues : repo_change = << [ change |-> v, cached |-> <<>> ] >>
    /\ fetched = <<>>
    /\ got = <<>>

\* One call of commits() on the instance.
CallCommits ==
    /\ Len(got) < MaxCalls
    /\ \E comparison \in Comparisons :
          LET c == _comparison(repo_change[1].cached, comparison)
              r == commits([ exc |-> c.exc, commits |-> c.commits ])
          IN  /\ repo_change' = << [ repo_change[1] EXCEPT !.cached = c.cached ] >>
              /\ fetched' = fetched \o c.fetched
              /\ got' = Append(got, r)
    /\ UNCHANGED <<nameVars, bundleVars, warnVars, imageVars, changeVars,
                   compareVars, runVars, scriptVars>>

CommitsNext == CallCommits

SpecCommits == CommitsInit /\ [][CommitsNext]_vars

\* C11: over any sequence of commits() calls on one instance the compare URL
\* is fetched at most once, also when that fetch failed, and no call raises:
\* a call whose fetch failed returns the empty list.
C11_FetchOnceNeverRaises ==
    /\ Len(fetched) <= 1
    /\ \A n \in 1..Len(got) : got[n].exc = ""
    /\ (fetched # <<>> /\ fetched[1] # "ok") =>
          \A n \in 1..Len(got) : got[n].commits = <<>>

\* Two commits() calls were made, the first fetch failed, the first call
\* raised and the second call fetched again.
C11_RaisedAndRefetched ==
    /\ Len(got) = 2
    /\ Len(fetched) = 2
    /\ fetched[1] = "URLError"
    /\ got[1].exc = "URLError"

\* What the cache does keep: a fetch that succeeded is the last one, and
\* every later call returns its commits.
SuccessfulFetchIsLast ==
    \A n \in 1..Len(fetched) : fetched[n] = "ok" => n = Len(fetched)

\* ------------------------------------------------ get_changes, continued

\* The first reference a bundle declares for a component name.
FirstRef(related, c) ==
    LET l == image_list(related)
    IN  l[CHOOSE n \in 1..Len(l) :
            /\ Image(l[n]).image_repo = c
            /\ \A j \in 1..(n - 1) : Image(l[j]).image_repo # c]

\* The component names of a bundle in the order it declares them.
RECURSIVE NamesInOrder(_, _)
NamesInOrder(l, seen) ==
    IF l = <<>> THEN <<>>
    ELSE IF Image(Head(l)).image_repo \in seen
    THEN NamesInOrder(Tail(l), seen)
    ELSE <<Image(Head(l)).image_repo>>
           \o NamesInOrder(Tail(l), seen \cup { Image(Head(l)).image_repo })

DeclaredNames(related) == NamesInOrder(image_list(related), {})

\* C12: when get_changes has returned, its groups are the component names of
\* the new bundle in declared order, each group starts with the first image
\* the new bundle declares for the name, and a name the old bundle has too is
\* paired with the first image the old bundle declares for it: nothing
\* depends on the iteration order of a set.
C12_FirstDeclaredKept ==
    pc = "done" =>
       /\ [ n \in 1..Len(images_by_image_repo) |-> images_by_image_repo[n].k ]
            = DeclaredNames(new_bundle)
       /\ \A n \in 1..Len(images_by_image_repo) :
             LET c == images_by_image_repo[n].k
                 imgs == images_by_image_repo[n].v
             IN  /\ imgs[1] = Image(FirstRef(new_bundle, c))
                 /\ c \in Components(old_bundle) =>
                       imgs = << Image(FirstRef(new_bundle, c)),
                                 Image(FirstRef(old_bundle, c)) >>

\* get_changes returned having kept, for a name the new bundle declares
\* twice, the image it declares second.
C12_LaterNewImageKept ==
    /\ pc = "done"
    /\ \E n \in 1..Len(images_by_image_repo) :
          LET c == images_by_image_repo[n].k
          IN  /\ Occurrences(new_bundle, c) = 2
              /\ images_by_image_repo[n].v[1] # Image(FirstRef(new_bundle, c))

\* get_changes returned having skipped a component both bundles have,
\* because the old bundle declares it twice.
OldDuplicateNotPaired ==
    /\ pc = "done"
    /\ \E n \in 1..Len(images_by_image_repo) :
          /\ Len(images_by_image_repo[n].v) = 3
          /\ Logged("missing image to compare", images_by_image_repo[n].k)

\* get_changes returned the RepoChange of a repo slug under the name of the
\* component the new bundle declares second, no name being declared twice.
TraversalOrderDecides ==
    /\ pc = "done"
    /\ Len(new_bundle) = 2
    /\ Len(DeclaredNames(new_bundle)) = 2
    /\ \E a \in 1..Len(changes) :
          /\ changes[a].v.image_name = DeclaredNames(new_bundle)[2]
          /\ TableGet(DeclaredNames(new_bundle)[1]) = changes[a].k
          /\ \E m \in 1..Len(trace) :
                trace[m].repo = DeclaredNames(new_bundle)[1]
                  /\ trace[m].what = "duplicate"

\* A group the third loop met with both images, one of which lacks a repo
\* slug or an upstream commit.
Unresolved(t) ==
    /\ t.n = 2
    /\ t.upstreams # <<>>
    /\ \/ ~Truthy(t.key)
       \/ ~Truthy(t.upstreams[1])
       \/ ~Truthy(t.upstreams[2])

\* C13: every RepoChange get_changes holds has the repo slug the table gives
\* for its component, non-empty, and non-empty old and new commits; it was
\* built from a group of a new-bundle image and an old-bundle image, with the
\* new image's component name, the old image's upstream commit as old
\* revision and the new image's as new revision; and a pair with an unknown
\* or empty repo slug, or with an absent or empty upstream commit, stores
\* nothing.
C13_EmittedChangesResolved ==
    /\ \A a \in 1..Len(changes) :
          LET v == changes[a].v
          IN  /\ Truthy(v.git_repo)
              /\ v.git_repo = changes[a].k
              /\ v.git_repo = TableGet(v.image_name)
              /\ Truthy(v.old_revision)
              /\ Truthy(v.new_revision)
              /\ \E m \in 1..Len(trace) :
                    LET t == trace[m]
                        imgs == DictGet(images_by_image_repo, t.repo)
                    IN  /\ t.what = "change"
                        /\ t.key = v.git_repo
                        /\ v.image_name = imgs[1].image_repo
                        /\ imgs[1].image_ref \in Range(image_list(new_bundle))
                        /\ imgs[2].image_ref \in Range(image_list(old_bundle))
                        /\ v.old_revision = t.upstreams[1]
                        /\ v.new_revision = t.upstreams[2]
    /\ \A m \in 1..Len(trace) :
          Unresolved(trace[m]) =>
             /\ trace[m].what = "no upstream info"
             /\ \A a \in 1..Len(changes) :
                   changes[a].v.image_name # trace[m].repo

\* get_changes returned a RepoChange between two different commits, and
\* dropped a pair that had no upstream info.
C13_EmittedAndDropped ==
    /\ pc = "done"
    /\ \E a \in 1..Len(changes) :
          changes[a].v.old_revision # changes[a].v.new_revision
    /\ \E m \in 1..Len(trace) : Unresolved(trace[m])

\* ------------------------------ scripts/osp_index_info.py: the Image object

\* An Image object of the script after __init__: its three memo fields at
\* their class default None (<<>>; <<v>> is "holds v"), and the count of the
\* containers created for it.
NewScriptResolver(image_ref) ==
    [ image_ref          |-> image_ref,
      image_repo         |-> ScriptImage(image_ref).image_repo,
      _container_id      |-> <<>>,
      _downstream_commit |-> <<>>,
      _upstream_commit   |-> <<>>,
      creates            |-> 0 ]

\* The value of an Optional field as Python sees it.
FieldValue(f) == IF f = <<>> THEN None ELSE f[1]

\* Image._get_container_id of the script.
script_get_container_id(w, i, create_ok) ==
    IF w.images[i]._container_id # <<>>
    THEN [ w |-> w, exc |-> "", ret |-> w.images[i]._container_id ]
    ELSE IF ~create_ok
    THEN [ w |-> w, exc |-> "CalledProcessError", ret |-> <<>> ]
    ELSE LET id == <<i, w.images[i].creates + 1>>
         IN  [ w |-> [ w EXCEPT
                         !.containers =
                             @ @@ (id :> [ live |-> TRUE, rms |-> 0 ]),
                         !.images[i]._container_id = <<id>>,
                         !.images[i].creates = @ + 1 ],
               exc |-> "", ret |-> <<id>> ]

\* Image.downstream_commit of the script: the field when it is not None,
\* else the "vcs-ref" label of the inspected container, "" when there is no
\* such label, no single object or a failed command.
script_downstream_commit(w, i, create_ok, inspection) ==
    IF w.images[i]._downstream_commit # <<>>
    THEN [ w |-> w, ret |-> w.images[i]._downstream_commit[1] ]
    ELSE LET g == script_get_container_id(w, i, create_ok)
             ret == IF g.exc # "" \/ inspection.kind # "ok" THEN EmptyStr
                    ELSE IF inspection.labels.vcs_ref = None THEN EmptyStr
                    ELSE inspection.labels.vcs_ref
         IN  [ w |-> [ g.w EXCEPT !.images[i]._downstream_commit = <<ret>> ],
               ret |-> ret ]

\* Image.upstream_commit of the script: the field when it is not None, else
\* the stripped text of /kodata/HEAD; a failed create or copy assigns "" to
\* _downstream_commit and returns _upstream_commit as it is.
script_upstream_commit(w, i, head) ==
    IF w.images[i]._upstream_commit # <<>>
    THEN [ w |-> w, ret |-> w.images[i]._upstream_commit[1] ]
    ELSE LET g == script_get_container_id(w, i, head.kind # "create fails")
         IN  IF g.exc # "" \/ head.kind # "ok"
             THEN [ w |-> [ g.w EXCEPT
                              !.images[i]._downstream_commit = <<EmptyStr>> ],
                    ret |-> FieldValue(g.w.images[i]._upstream_commit) ]
             ELSE [ w |-> [ g.w EXCEPT
                              !.images[i]._upstream_commit = <<Strip(head.text)>> ],
                    ret |-> Strip(head.text) ]

\* Image.as_dict of the script: the calls it makes, in order.
script_as_dict(w, i, create_ok, inspection, head) ==
    LET d1 == script_downstream_commit(w, i, create_ok, inspection)
        d2 == IF Truthy(d1.ret)
              THEN script_downstream_commit(d1.w, i, create_ok, inspection)
              ELSE d1
        u1 == script_upstream_commit(d2.w, i, head)
        u2 == IF Truthy(u1.ret) THEN script_upstream_commit(u1.w, i, head)
              ELSE u1
    IN  u2.w

\* ----------------------------------------------- SpecRun: a run of __main__

\* The commands of main.py, and the one thing the script does.
Commands ==
    { [ program |-> "main", command |-> c ] :
        c \in { "full-info", "list-images", "build-version",
                "validate-images", "compare" } }
      \cup { [ program |-> "script", command |-> "as_dict" ] }

\* The Catalog objects a run constructs: two for compare, else one.
CatalogsOf(command) == IF command = "compare" THEN 2 ELSE 1

\* Where an exception goes: compare has no handler and no finally, the other
\* commands run inside the try of __main__.
AfterRaise(command) == IF command = "compare" THEN "exit" ELSE "finally"

At(r, at, exc) == << [ r EXCEPT !.at = at, !.exc = exc ] >>

RunInit ==
    /\ ScriptIdle
    /\ NameIdle
    /\ BundleIdle
    /\ WarnIdle
    /\ ChangeIdle
    /\ CompareIdle
    /\ CommitsIdle
    /\ \E c \in Commands, ref \in [ ImageIds -> ImageRefs ] :
          /\ run = << [ program |-> c.program, command |-> c.command,
                        at |-> "Catalog", i |-> 1, exc |-> "" ] >>
          /\ images = [ i \in ImageIds |->
                          IF c.program = "script"
                          THEN NewScriptResolver(ref[i])
                          ELSE NewResolver(ref[i]) ]
    /\ catalog = <<>>
    /\ store = {}
    /\ containers = <<>>
    /\ log = {}
    /\ pulled_images = <<>>
    /\ created_images = <<>>
    /\ last = [ op |-> "", exc |-> "" ]
    /\ cleans = 0

\* Catalog(image): __init__ with _pull_data. main.py stores the container id
\* in self.container_id before the copy; the script never stores it. A
\* constructor that raises binds no local.
RunCatalog ==
    /\ run # <<>>
    /\ run[1].at = "Catalog"
    /\ \E create_ok \in BOOLEAN, cp_ok \in BOOLEAN :
          LET r == run[1]
              id == <<0, Len(catalog) + 1>>
              cat == [ container_id |-> IF r.program = "script" THEN <<>>
                                        ELSE <<id>> ]
          IN  /\ containers' =
                    IF create_ok
                    THEN containers @@ (id :> [ live |-> TRUE, rms |-> 0 ])
                    ELSE containers
              /\ IF create_ok /\ cp_ok
                 THEN /\ catalog' = Append(catalog, cat)
                      /\ run' = At(r, IF Len(catalog') = CatalogsOf(r.command)
                                      THEN "get_bundle" ELSE "Catalog", "")
                 ELSE /\ catalog' = catalog
                      /\ run' = At(r, AfterRaise(r.command),
                                   IF create_ok THEN "CalledProcessError"
                                   ELSE "RuntimeError")
    /\ UNCHANGED <<images, store, log, pulled_images, created_images, last,
                   cleans, nameVars, bundleVars, warnVars, changeVars,
                   compareVars, commitsVars, scriptVars>>

\* catalog.get_bundle(name) in main.py raises when the bundle is not found;
\* the script filters catalog.bundles() and does nothing when none matches.
\* list-images and build-version resolve nothing.
RunGetBundle ==
    /\ run # <<>>
    /\ run[1].at = "get_bundle"
    /\ \E found \in BOOLEAN :
          LET r == run[1]
          IN  run' = IF found
                     THEN At(r, IF r.command \in { "list-images", "build-version" }
                                THEN "finally" ELSE "images", "")
                     ELSE IF r.program = "script" THEN At(r, "finally", "")
                     ELSE At(r, AfterRaise(r.command), "Exception")
    /\ UNCHANGED <<imageVars, nameVars, bundleVars, warnVars, changeVars,
                   compareVars, commitsVars, scriptVars>>

\* What a command does with one image of the bundle: full-info and the
\* script call as_dict, validate-images calls exists, compare calls
\* upstream_commit in get_changes for the images it pairs.
ResolveImage(r, w, i, pull_ok, inspection, head, paired) ==
    CASE r.program = "script" ->
           script_as_dict(w, i, head.kind # "create fails", inspection, head)
      [] r.command = "full-info" ->
           upstream_commit(downstream_commit(w, i, pull_ok, inspection).w,
                           i, pull_ok, inspection, head).w
      [] r.command = "validate-images" -> exists(w, i, pull_ok).w
      [] r.command = "compare" ->
           IF paired THEN upstream_commit(w, i, pull_ok, inspection, head).w
           ELSE w

\* After the images: compare goes through its loop, which an exception can
\* leave, and returns; the other commands reach the finally clause.
RunImage ==
    /\ run # <<>>
    /\ run[1].at = "images"
    /\ \E pull_ok \in BOOLEAN, inspection \in Inspections, head \in HeadFiles,
          paired \in BOOLEAN, loop_exc \in { "", "TypeError" } :
          LET r == run[1]
              last_one == r.i = NumImages
          IN  /\ Put(ResolveImage(r, World, r.i, pull_ok, inspection, head, paired))
              /\ run' = IF ~last_one
                        THEN << [ r EXCEPT !.i = @ + 1 ] >>
                        ELSE IF r.command = "compare"
                        THEN At(r, "exit", loop_exc)
                        ELSE At(r, "finally", "")
    /\ UNCHANGED <<catalog, last, cleans, nameVars, bundleVars, warnVars,
                   changeVars, compareVars, commitsVars, scriptVars>>

\* finally: if catalog is not None: catalog.clean().
RunFinally ==
    /\ run # <<>>
    /\ run[1].at = "finally"
    /\ LET r == run[1]
           c == IF catalog # <<>> THEN CatalogClean(World, catalog[1])
                ELSE [ w |-> World, exc |-> "" ]
       IN  /\ Put(c.w)
           /\ run' = At(r, "exit", IF c.exc # "" THEN c.exc ELSE r.exc)
           /\ cleans' = IF catalog # <<>> THEN cleans + 1 ELSE cleans
    /\ UNCHANGED <<catalog, last, nameVars, bundleVars, warnVars, changeVars,
                   compareVars, commitsVars, scriptVars>>

RunNext == RunCatalog \/ RunGetBundle \/ RunImage \/ RunFinally

SpecRun == RunInit /\ [][RunNext]_vars

Live == { id \in DOMAIN containers : containers[id].live }

\* C14: when a run has ended, on whatever path, no container created during
\* it is left: each was removed before the end.
C14_AllReleasedAtExit ==
    (run # <<>> /\ run[1].at = "exit") => Live = {}

\* A compare run of main.py ended without an exception and left containers.
C14_CompareLeavesContainers ==
    /\ run # <<>>
    /\ run[1].at = "exit"
    /\ run[1].command = "compare"
    /\ run[1].exc = ""
    /\ Live # {}

\* A single-catalog command of main.py ended after a failed catalog-file
\* copy and left the catalog's container.
CopyFailureLeavesContainer ==
    /\ run # <<>>
    /\ run[1].at = "exit"
    /\ run[1].program = "main"
    /\ run[1].command # "compare"
    /\ run[1].exc = "CalledProcessError"
    /\ Live = { <<0, 1>> }

\* A run of the script ended without an exception and left the catalog's
\* container.
ScriptLeavesCatalogContainer ==
    /\ run # <<>>
    /\ run[1].at = "exit"
    /\ run[1].program = "script"
    /\ run[1].exc = ""
    /\ Live = { <<0, 1>> }

\* The paths on which main.py does release: a single-catalog command whose
\* Catalog was constructed, whether the command succeeded or get_bundle
\* raised.
SingleCatalogReleases ==
    (/\ run # <<>>
     /\ run[1].at = "exit"
     /\ run[1].program = "main"
     /\ run[1].command # "compare"
     /\ catalog # <<>>) => Live = {}

\* ------------------------- SpecScript: the memo fields of the script's Image

ScriptInit ==
    /\ NameIdle
    /\ BundleIdle
    /\ WarnIdle
    /\ ChangeIdle
    /\ CompareIdle
    /\ CommitsIdle
    /\ RunIdle
    /\ images \in { [ i \in ImageIds |-> NewScriptResolver(ref[i]) ] :
                    ref \in [ ImageIds -> ImageRefs ] }
    /\ returns = [ i \in ImageIds |-> <<>> ]
    /\ catalog = <<>>
    /\ store = {}
    /\ containers = <<>>
    /\ log = {}
    /\ pulled_images = <<>>
    /\ created_images = <<>>
    /\ last = [ op |-> "", exc |-> "" ]
    /\ cleans = 0

Returned(op, ret, ran) == [ op |-> op, ret |-> ret, ran |-> ran ]

CallScriptDownstream(i) ==
    /\ Len(returns[i]) < MaxCalls
    /\ \E create_ok \in BOOLEAN, inspection \in Inspections :
          LET r == script_downstream_commit(World, i, create_ok, inspection)
          IN  /\ Put(r.w)
              /\ returns' =
                    [ returns EXCEPT
                        ![i] = Append(@, Returned("downstream_commit", r.ret,
                                                  images[i]._downstream_commit = <<>>)) ]
    /\ last' = [ op |-> "downstream_commit", exc |-> "" ]
    /\ UNCHANGED <<catalog, cleans, nameVars, bundleVars, warnVars,
                   changeVars, compareVars, commitsVars, runVars>>

CallScriptUpstream(i) ==
    /\ Len(returns[i]) < MaxCalls
    /\ \E head \in HeadFiles :
          LET r == script_upstream_commit(World, i, head)
          IN  /\ Put(r.w)
              /\ returns' =
                    [ returns EXCEPT
                        ![i] = Append(@, Returned("upstream_commit", r.ret,
                                                  images[i]._upstream_commit = <<>>)) ]
    /\ last' = [ op |-> "upstream_commit", exc |-> "" ]
    /\ UNCHANGED <<catalog, cleans, nameVars, bundleVars, warnVars,
                   changeVars, compareVars, commitsVars, runVars>>

ScriptNext ==
    \/ \E i \in ImageIds : CallScriptDownstream(i)
    \/ \E i \in ImageIds : CallScriptUpstream(i)

SpecScript == ScriptInit /\ [][ScriptNext]_vars

\* C15: on one Image, every downstream_commit call returns what the first
\* one returned, whatever upstream_commit calls come between, failed ones
\* included; and each of the two resolutions is attempted at most once, an
\* attempt that ended in "absent" included.
C15_MemoFieldsIndependent ==
    \A i \in ImageIds :
       /\ \A a \in 1..Len(returns[i]), b \in 1..Len(returns[i]) :
             (/\ returns[i][a].op = "downstream_commit"
              /\ returns[i][b].op = "downstream_commit")
                => returns[i][a].ret = returns[i][b].ret
       /\ \A a \in 1..Len(returns[i]), b \in 1..Len(returns[i]) :
             (/\ a # b
              /\ returns[i][a].op = returns[i][b].op
              /\ returns[i][a].ran)
                => ~returns[i][b].ran

\* downstream_commit returned a commit, an upstream_commit call failed, and
\* the next downstream_commit call returned the empty text.
C15_DownstreamForgotten ==
    \E i \in ImageIds :
       /\ Len(returns[i]) = 3
       /\ returns[i][1] = Returned("downstream_commit", <<"d0wn">>, TRUE)
       /\ returns[i][2] = Returned("upstream_commit", None, TRUE)
       /\ returns[i][3] = Returned("downstream_commit", EmptyStr, FALSE)

\* upstream_commit ended in None and the next call attempted the resolution
\* again.
UpstreamAttemptedAgain ==
    \E i \in ImageIds :
       /\ Len(returns[i]) >= 2
       /\ returns[i][1] = Returned("upstream_commit", None, TRUE)
       /\ returns[i][2].op = "upstream_commit"
       /\ returns[i][2].ran

\* main.py, under SpecImage: the functools caches of downstream_commit and
\* upstream_commit are set once and never change.
MainCachesStable ==
    [][\A i \in ImageIds :
          /\ images[i].c_downstream # <<>> =>
                images'[i].c_downstream = images[i].c_downstream
          /\ images[i].c_upstream # <<>> =>
                images'[i].c_upstream = images[i].c_upstream]_vars

====
